---- MODULE Spec2Model ----
(***************************************************************************)
(* The ranking engine of image_rater.py (class ImageRater): construction   *)
(* and restore, random scheduling, decisions, rejections, save, and the    *)
(* files the engine reads back (the saved set, the rejected folder).       *)
(*                                                                         *)
(* Identifiers are the image file names, written 1..MaxImages.  Ratings    *)
(* are kept in thousandths of a rating point (1500 is 1500000).  A         *)
(* comparison record is <<a, b, py>> where py tells whether the Python     *)
(* object is a tuple (appended by the engine) or a list (read back from    *)
(* JSON): the membership tests of the engine compare against tuples, and   *)
(* in Python (a, b) == [a, b] is False.                                    *)
(***************************************************************************)
EXTENDS Integers, Sequences, FiniteSets, TLC

\* Bounds of the model.
MaxImages == 3
MaxSessions == 2
MaxOps == 2
MaxRoundOps == 3
MaxRatingSteps == 2
MaxRated == 10

\* Program constants.
InitialRating == 1500000
KFactor == 32
EloScale == 400000

None == <<>>
SetName == "Default"

VARIABLES
    rater,          \* the ImageRater object (its attributes)
    pc,             \* "startup" | "constructed" | "running" | "hung"
    images,         \* the image files on disk, in listing / selection order
    rejected_dir,   \* names found by os.listdir(rejected_folder_path)
    disk,           \* the saved set file image_rater_set_<name>.json
    sessions,       \* number of ImageRater objects constructed so far
    ops,            \* decisions and rejections the user still makes
    obs             \* what the last operation did (observation only)

vars == <<rater, pc, images, rejected_dir, disk, sessions, ops, obs>>

----------------------------------------------------------------------------
\* Python helpers

Range(s) == {s[i] : i \in DOMAIN s}

InList(x, s) == \E i \in DOMAIN s : s[i] = x

\* list.remove(x): drops the first occurrence
RemoveFirst(s, x) ==
    LET i == CHOOSE k \in DOMAIN s : s[k] = x /\ \A j \in 1..(k - 1) : s[j] # x
    IN  [k \in 1..(Len(s) - 1) |-> IF k < i THEN s[k] ELSE s[k + 1]]

\* (a, b) in self.comparisons: only a tuple equals the tuple (a, b)
InComparisons(comparisons, a, b) == InList(<<a, b, "tuple">>, comparisons)

\* json.dump / json.load of the comparison list: tuples and lists are written
\* as arrays, and arrays are read back as lists
JsonDumpPairs(comparisons) == [i \in DOMAIN comparisons |-> <<comparisons[i][1], comparisons[i][2]>>]
JsonLoadPairs(arrays) == [i \in DOMAIN arrays |-> <<arrays[i][1], arrays[i][2], "list">>]

----------------------------------------------------------------------------
\* update_ratings: the logistic expected score 1 / (1 + 10 ** (d / 400)),
\* tabulated in millionths every 10 rating points (40 entries for each 400
\* points, a factor 10 of the odds) for d from 0 to 2400 and
\* interpolated linearly; for d < 0 it is 1 minus the score of -d.  Beyond
\* 2400 points the score is below one millionth and rounds to 0, as the
\* double rounds 1 + 10 ** (-d / 400) to 1 beyond about 6400 points: a rating
\* difference between 1800 and 6400 points, where the double still moves and
\* the thousandths do not, is drawn by no specification here, and neither is
\* one beyond 123000 points, where 10 ** (d / 400) raises OverflowError.

ExpectedTable ==
    << 500000, 485613, 471249, 456934, 442688, 428537, 414501, 400603, 386863,
       373301, 359935, 346783, 333861, 321183, 308764, 296615, 284747, 273170,
       261891, 250917, 240253, 229903, 219870, 210156, 200760, 191682, 182921,
       174474, 166338, 158508, 150980, 143748, 136807, 130150, 123771, 117662,
       111816, 106225, 100883, 95780, 90909, 86262, 81832, 77609, 73588,
       69758, 66114, 62647, 59351, 56218, 53240, 50412, 47727, 45178,
       42758, 40463, 38287, 36222, 34266, 32411, 30653, 28988, 27411,
       25918, 24503, 23164, 21897, 20697, 19562, 18488, 17472, 16511,
       15602, 14742, 13929, 13160, 12433, 11745, 11096, 10482, 9901,
       9352, 8834, 8344, 7881, 7443, 7030, 6639, 6270, 5921,
       5592, 5281, 4987, 4709, 4447, 4199, 3965, 3744, 3536,
       3338, 3152, 2976, 2810, 2654, 2506, 2366, 2234, 2109,
       1991, 1880, 1775, 1676, 1582, 1494, 1411, 1332, 1257,
       1187, 1121, 1058, 999, 943, 890, 841, 794, 749,
       707, 668, 631, 595, 562, 531, 501, 473, 446,
       422, 398, 376, 355, 335, 316, 298, 282, 266,
       251, 237, 224, 211, 199, 188, 178, 168, 158,
       150, 141, 133, 126, 119, 112, 106, 100, 94,
       89, 84, 79, 75, 71, 67, 63, 60, 56,
       53, 50, 47, 45, 42, 40, 38, 35, 33,
       32, 30, 28, 27, 25, 24, 22, 21, 20,
       19, 18, 17, 16, 15, 14, 13, 13, 12,
       11, 11, 10, 9, 9, 8, 8, 7, 7,
       7, 6, 6, 6, 5, 5, 5, 4, 4,
       4, 4, 4, 3, 3, 3, 3, 3, 3,
       2, 2, 2, 2, 2, 2, 2, 2, 1,
       1, 1, 1, 1, 1, 1, 1 >>

\* 1 / (1 + 10 ** (d / 400)) in millionths, d in thousandths of a point
Expected(d) ==
    LET a == IF d < 0 THEN 0 - d ELSE d
        i == a \div (EloScale \div 40)
        f == a % (EloScale \div 40)
        e == IF i + 1 >= Len(ExpectedTable) THEN 0
             ELSE ExpectedTable[i + 1] + ((ExpectedTable[i + 2] - ExpectedTable[i + 1]) * f) \div (EloScale \div 40)
    IN  IF d < 0 THEN 1000000 - e ELSE e

\* k * (1 - expected) and k * (0 - expected), in thousandths of a point
WinDelta(expected) == (KFactor * (1000000 - expected)) \div 1000
LoseDelta(expected) == 0 - ((KFactor * expected) \div 1000)

\* update_ratings that takes image1 for the winner whatever winner is
update_ratings_left(ratings, image1, image2, winner) ==
    LET r1 == ratings[image1]
        r2 == ratings[image2]
        expected1 == Expected(r2 - r1)
        expected2 == Expected(r1 - r2)
    IN  [ratings EXCEPT ![image1] = r1 + WinDelta(expected1),
                        ![image2] = r2 + LoseDelta(expected2)]

update_ratings(ratings, image1, image2, winner) ==
    LET r1 == ratings[image1]
        r2 == ratings[image2]
        expected1 == Expected(r2 - r1)
        expected2 == Expected(r1 - r2)
    IN  IF winner = image1
        THEN [ratings EXCEPT ![image1] = r1 + WinDelta(expected1),
                             ![image2] = r2 + LoseDelta(expected2)]
        ELSE [ratings EXCEPT ![image1] = r1 + LoseDelta(expected1),
                             ![image2] = r2 + WinDelta(expected2)]

----------------------------------------------------------------------------
\* The ImageRater object.  attrs is the set of attributes that exist on the
\* object (an attribute that was never assigned raises AttributeError when
\* read); file_paths is the dict's keys in insertion order, the value of a
\* key being the path of that image.

Blank ==
    [attrs |-> {}, is_folder |-> TRUE, set_name |-> SetName, file_paths |-> <<>>,
     image_files |-> <<>>, num_images |-> 0, ratings |-> <<>>, comparisons |-> <<>>,
     current_comparison |-> None, current_comparison_number |-> 0]

\* what a handler returns to the model: the object, and what happened
Outcome(o, raised, hung, sched, done) ==
    [o |-> o, raised |-> raised, hung |-> hung, sched |-> sched, done |-> done,
     picked |-> TRUE, next_image |-> 0, entered |-> FALSE, unseen |-> FALSE, side |-> 0,
     skipped |-> FALSE]

\* the unordered pair {a, b} is among the records, whatever their Python type
Recorded(comparisons, a, b) ==
    \E i \in DOMAIN comparisons : {comparisons[i][1], comparisons[i][2]} = {a, b}

\* the unordered pairs of distinct live identifiers that are not recorded
Unseen(o) ==
    {p \in Range(o.image_files) \X Range(o.image_files) :
        p[1] < p[2] /\ ~Recorded(o.comparisons, p[1], p[2])}

\* get_next_comparison: the pairs the retry loop can leave with
Candidates(o) ==
    {p \in Range(o.image_files) \X Range(o.image_files) :
        /\ p[1] # p[2]
        /\ ~InComparisons(o.comparisons, p[1], p[2])
        /\ ~InComparisons(o.comparisons, p[2], p[1])}

\* get_next_comparison with the random draws resolved to pick; with no
\* candidate the while True loop never ends
\* the test of the loop without the look-up in the comparison records
PassesTestUnrecorded(o, pick) ==
    /\ InList(pick[1], o.image_files)
    /\ InList(pick[2], o.image_files)
    /\ pick[1] # pick[2]

\* lines 395-397: the test that ends the loop of get_next_comparison
PassesTest(o, pick) ==
    /\ InList(pick[1], o.image_files)
    /\ InList(pick[2], o.image_files)
    /\ pick[1] # pick[2]
    /\ ~InComparisons(o.comparisons, pick[1], pick[2])
    /\ ~InComparisons(o.comparisons, pick[2], pick[1])

get_next_comparison(o, pick) ==
    IF PassesTest(o, pick)
    THEN [Outcome([o EXCEPT !.comparisons = Append(@, <<pick[1], pick[2], "tuple">>),
                            !.current_comparison = pick],
                  FALSE, FALSE, pick, FALSE)
          EXCEPT !.entered = TRUE, !.unseen = Unseen(o) # {}]
    ELSE IF Candidates(o) = {}
    THEN [Outcome(o, FALSE, TRUE, None, FALSE)
          EXCEPT !.entered = TRUE, !.unseen = Unseen(o) # {}]
    ELSE [Outcome(o, FALSE, FALSE, None, FALSE)
          EXCEPT !.picked = FALSE, !.entered = TRUE]

\* the filter of compare_images on the rejected folder
FilterRejected(o, rej) ==
    IF o.is_folder
    THEN [o EXCEPT !.image_files = SelectSeq(@, LAMBDA f : f \notin rej)]
    ELSE o

\* compare_images with the threshold n * (n - 1) in place of n * (n - 1) / 2.
MoreComparisonsNoHalving(o) ==
    /\ Len(o.comparisons) < o.num_images * (o.num_images - 1)
    /\ Len(o.image_files) > 1

\* the test that guards the retry loop
MoreComparisons(o) ==
    /\ Len(o.comparisons) < (o.num_images * (o.num_images - 1)) \div 2
    /\ Len(o.image_files) > 1

compare_images(o, rej, pick) ==
    LET o1 == FilterRejected(o, rej)
    IN  IF Len(o1.image_files) < 2
        THEN Outcome(o1, FALSE, FALSE, None, TRUE)
        ELSE IF o1.current_comparison # None
        THEN Outcome(o1, FALSE, FALSE, None, FALSE)
        ELSE IF MoreComparisons(o1)
        THEN get_next_comparison(o1, pick)
        ELSE Outcome(o1, FALSE, FALSE, None, TRUE)

\* choose_left / choose_right: winner_index is 1 (left) or 2 (right)
choose(o, rej, winner_index, pick) ==
    IF o.current_comparison = None
    THEN Outcome(o, FALSE, FALSE, None, FALSE)
    ELSE LET image1 == o.current_comparison[1]
             image2 == o.current_comparison[2]
         IN  IF \/ "ratings" \notin o.attrs
                \/ image1 \notin DOMAIN o.ratings
                \/ image2 \notin DOMAIN o.ratings
             THEN Outcome(o, TRUE, FALSE, None, FALSE)
             ELSE compare_images(
                    [o EXCEPT !.ratings = update_ratings(@, image1, image2,
                                                         o.current_comparison[winner_index]),
                              !.current_comparison_number = @ + 1,
                              !.current_comparison = None],
                    rej, pick)

\* get_next_image: the first image of the live list not yet paired with
\* current_image; 0 stands for None
NextImageIndex(o, current_image) ==
    {i \in DOMAIN o.image_files :
        /\ o.image_files[i] # current_image
        /\ ~InComparisons(o.comparisons, current_image, o.image_files[i])
        /\ ~InComparisons(o.comparisons, o.image_files[i], current_image)}

\* get_next_image returning the last image of the list that qualifies
get_next_image_last(o, current_image) ==
    LET found == NextImageIndex(o, current_image)
    IN  IF found = {}
        THEN [o |-> o, image |-> 0]
        ELSE LET i == CHOOSE k \in found : \A j \in found : k >= j
                 image == o.image_files[i]
             IN  [o |-> [o EXCEPT !.comparisons = Append(@, <<current_image, image, "tuple">>)],
                  image |-> image]

get_next_image(o, current_image) ==
    LET found == NextImageIndex(o, current_image)
    IN  IF found = {}
        THEN [o |-> o, image |-> 0]
        ELSE LET i == CHOOSE k \in found : \A j \in found : k <= j
                 image == o.image_files[i]
             IN  [o |-> [o EXCEPT !.comparisons = Append(@, <<current_image, image, "tuple">>)],
                  image |-> image]

\* the pending comparison with the sides of the survivor and its new partner exchanged
NewComparisonSwapped(side, remaining_image, new_image) ==
    IF side = 2 THEN <<new_image, remaining_image>> ELSE <<remaining_image, new_image>>

\* line 522: the pending comparison made of the survivor and its new partner
NewComparison(side, remaining_image, new_image) ==
    IF side = 2 THEN <<remaining_image, new_image>> ELSE <<new_image, remaining_image>>

\* reject_image(side): side is 1 ('left') or 2 (anything else)
reject_image(o, rej, side, pick) ==
    IF o.current_comparison = None
    THEN Outcome(o, FALSE, FALSE, None, FALSE)
    ELSE LET rejected_image == o.current_comparison[side]
             remaining_image == o.current_comparison[3 - side]
         IN  IF ~InList(rejected_image, o.image_files)
             THEN Outcome(o, TRUE, FALSE, None, FALSE)
             ELSE LET o1 == [o EXCEPT !.image_files = RemoveFirst(@, rejected_image)]
                  IN  IF "ratings" \notin o1.attrs \/ rejected_image \notin DOMAIN o1.ratings
                      THEN Outcome(o1, TRUE, FALSE, None, FALSE)
                      ELSE LET o2 == [o1 EXCEPT
                                        !.ratings = [i \in DOMAIN @ \ {rejected_image} |-> @[i]],
                                        !.num_images = @ - 1]
                               nxt == get_next_image(o2, remaining_image)
                           IN  IF nxt.image # 0
                               THEN [Outcome([nxt.o EXCEPT !.current_comparison =
                                                NewComparison(side, remaining_image, nxt.image)],
                                             FALSE, FALSE, None, FALSE)
                                     EXCEPT !.next_image = nxt.image]
                               ELSE compare_images([nxt.o EXCEPT !.current_comparison = None],
                                                   rej, pick)

----------------------------------------------------------------------------
\* The saved set file.  has_ratings / has_current / has_file_paths tell
\* whether the JSON object has the key.

NoFile ==
    [exists |-> FALSE, set_name |-> SetName, has_ratings |-> FALSE, ratings |-> <<>>,
     comparisons |-> <<>>, current_comparison_number |-> 0,
     has_current |-> FALSE, current_comparison |-> None,
     has_file_paths |-> FALSE, file_paths |-> <<>>]

\* save_progress: the record json.dump writes; reading self.ratings raises
\* AttributeError on an object that has none, before the file is opened
CanSave(o) == {"ratings", "comparisons", "current_comparison_number", "current_comparison"} \subseteq o.attrs

\* save_progress writing file_paths in folder mode as well
save_progress_paths_always(o) ==
    [exists |-> TRUE, set_name |-> o.set_name,
     has_ratings |-> TRUE, ratings |-> o.ratings,
     comparisons |-> JsonDumpPairs(o.comparisons),
     current_comparison_number |-> o.current_comparison_number,
     has_current |-> o.current_comparison # None,
     current_comparison |-> o.current_comparison,
     has_file_paths |-> TRUE,
     file_paths |-> IF o.is_folder THEN <<>> ELSE o.file_paths]

save_progress(o) ==
    [exists |-> TRUE, set_name |-> o.set_name,
     has_ratings |-> TRUE, ratings |-> o.ratings,
     comparisons |-> JsonDumpPairs(o.comparisons),
     current_comparison_number |-> o.current_comparison_number,
     has_current |-> o.current_comparison # None,
     current_comparison |-> o.current_comparison,
     has_file_paths |-> ~o.is_folder,
     file_paths |-> IF o.is_folder THEN <<>> ELSE o.file_paths]

\* load_set_from_file, statement by statement; listing holds the image
\* files that exist (the set file lies in their directory, so a file that is
\* not at its path is not found next to the set file either).
\* Lines 922-957: set name and file paths
LoadPaths(o, d, listing) ==
    LET o1 == [o EXCEPT !.set_name = d.set_name]
        valid_paths == SelectSeq(d.file_paths, LAMBDA f : InList(f, listing))
    IN  IF d.has_file_paths
        THEN [o1 EXCEPT !.file_paths = valid_paths,
                        !.is_folder = IF valid_paths # <<>> THEN FALSE ELSE @]
        ELSE o1

\* Lines 960-961
LoadImageFiles(o) ==
    IF ~o.is_folder
    THEN [o EXCEPT !.image_files = o.file_paths, !.attrs = @ \cup {"image_files"}]
    ELSE o

\* Lines 964-967 (loaded_ratings is read and never used)
LoadFields(o, d) ==
    [o EXCEPT !.comparisons = JsonLoadPairs(d.comparisons),
              !.current_comparison_number = d.current_comparison_number,
              !.current_comparison = IF d.has_current THEN d.current_comparison ELSE None,
              !.attrs = @ \cup {"comparisons", "current_comparison_number", "current_comparison"}]

\* Lines 970-972
LoadInitRatings(o) ==
    [o EXCEPT !.ratings = [i \in DOMAIN @ \cup Range(o.image_files) |->
                              IF i \in DOMAIN @ THEN @[i] ELSE InitialRating]]

\* Lines 975-989
LoadPrune(o) ==
    LET kept == SelectSeq(o.comparisons,
                          LAMBDA c : InList(c[1], o.image_files) /\ InList(c[2], o.image_files))
        updated_comparisons == [i \in DOMAIN kept |-> <<kept[i][1], kept[i][2], "tuple">>]
        cc == o.current_comparison
    IN  [o EXCEPT !.comparisons = updated_comparisons,
                  !.current_comparison =
                      IF cc # None /\ (~InList(cc[1], o.image_files) \/ ~InList(cc[2], o.image_files))
                      THEN None ELSE cc,
                  !.current_comparison_number = Len(updated_comparisons),
                  !.num_images = Len(o.image_files),
                  !.attrs = @ \cup {"num_images"}]

\* the whole function: ret is its return value; an exception leaves the
\* object as it was when it was raised
load_set_from_file(o, d, listing) ==
    LET o1 == LoadImageFiles(LoadPaths(o, d, listing))
    IN  IF ~d.has_ratings
        THEN [o |-> o1, ret |-> FALSE]                      \* KeyError, line 964
        ELSE LET o2 == LoadFields(o1, d)
             IN  IF "image_files" \notin o2.attrs
                 THEN [o |-> o2, ret |-> FALSE]             \* AttributeError, line 970
                 ELSE IF o2.image_files # <<>> /\ "ratings" \notin o2.attrs
                 THEN [o |-> o2, ret |-> FALSE]             \* AttributeError, line 971
                 ELSE LET o3 == LoadPrune(LoadInitRatings(o2))
                      IN  IF ~d.has_file_paths
                          THEN [o |-> o3, ret |-> FALSE]    \* NameError, line 992
                          ELSE IF \E i \in DOMAIN d.file_paths : ~InList(d.file_paths[i], listing)
                          THEN [o |-> o3, ret |-> FALSE]    \* AttributeError (root), line 994
                          ELSE [o |-> [o3 EXCEPT !.attrs = @ \cup {"loaded_set"}],
                                ret |-> TRUE]

\* load_progress: the set file of the folder, when there is one
load_progress(o, d, listing) ==
    IF ~o.is_folder \/ ~d.exists
    THEN [o |-> o, ret |-> TRUE, called |-> FALSE, before |-> o]
    ELSE [o |-> load_set_from_file(o, d, listing).o, ret |-> load_set_from_file(o, d, listing).ret,
          called |-> TRUE, before |-> o]

\* the keys of a dict built from the sequence s, in insertion order: a key
\* that comes again keeps its first place
DictKeys(s) ==
    LET first == {i \in DOMAIN s : \A j \in 1..(i - 1) : s[j] # s[i]}
        at(k) == CHOOSE i \in first : Cardinality({j \in first : j < i}) = k - 1
    IN  [k \in 1..Cardinality(first) |-> s[at(k)]]

\* __init__, lines 122-136; files holds the base names of the selected paths
InitFields(o, is_folder, files, listing) ==
    LET image_files == IF is_folder THEN listing ELSE files
    IN  [o EXCEPT !.image_files = image_files,
                  !.file_paths = IF ~is_folder /\ files # <<>> THEN DictKeys(files) ELSE @,
                  !.num_images = Len(image_files),
                  !.ratings = [i \in Range(image_files) |-> InitialRating],
                  !.comparisons = <<>>,
                  !.current_comparison = None,
                  !.current_comparison_number = 0,
                  !.attrs = @ \cup {"image_files", "num_images", "ratings", "comparisons",
                                    "current_comparison", "current_comparison_number"}]

\* ImageRater.__init__(files_or_folder, is_folder, set_name, load_set_path):
\* load tells whether load_set_path is given, d is the set file, listing is
\* os.listdir of the folder.  The result carries the last load_set_from_file
\* call that was made (called, before, o at its return, ret).
ImageRater(files, is_folder, set_name, load, d, listing) ==
    LET o0 == [Blank EXCEPT !.is_folder = is_folder, !.set_name = set_name]
        first == IF load THEN load_set_from_file(o0, d, listing) ELSE [o |-> o0, ret |-> TRUE]
        o1 == first.o
    IN  IF load /\ ~o1.is_folder /\ o1.file_paths # <<>>
        THEN [o |-> [o1 EXCEPT !.image_files = o1.file_paths,
                               !.num_images = Len(o1.file_paths),
                               !.attrs = @ \cup {"image_files", "num_images"}],
              called |-> TRUE, before |-> o0, after |-> o1, ret |-> first.ret]
        ELSE LET o2 == InitFields(o1, is_folder, files, listing)
             IN  IF is_folder /\ load /\ "loaded_set" \notin o2.attrs
                 THEN [o |-> load_set_from_file(o2, d, listing).o, called |-> TRUE, before |-> o2,
                       after |-> load_set_from_file(o2, d, listing).o, ret |-> load_set_from_file(o2, d, listing).ret]
                 ELSE IF is_folder /\ ~load
                 THEN [o |-> load_progress(o2, d, listing).o, called |-> load_progress(o2, d, listing).called,
                       before |-> o2, after |-> load_progress(o2, d, listing).o,
                       ret |-> load_progress(o2, d, listing).ret]
                 ELSE [o |-> o2, called |-> load, before |-> o0, after |-> o1, ret |-> first.ret]

----------------------------------------------------------------------------
\* Observations: op is the handler that ran last, with what it did; loaded,
\* rejected and saved_rejected are kept for the life of a session (whether
\* its constructor read a set file, the identifiers rejected so far in the
\* session and in the sessions it continues, and those rejected before the
\* set file on disk was written).

Obs(op, out, prev) ==
    [op |-> op, sched |-> out.sched, done |-> out.done, raised |-> out.raised,
     next_image |-> out.next_image, entered |-> out.entered, unseen |-> out.unseen,
     side |-> out.side, skipped |-> out.skipped,
     load_called |-> FALSE, load_ret |-> TRUE, load_before |-> Blank, load_after |-> Blank,
     assigned |-> <<>>, folders |-> <<>>,
     loaded |-> prev.loaded, rejected |-> prev.rejected,
     saved_rejected |-> prev.saved_rejected]

Quiet(o) == Outcome(o, FALSE, FALSE, None, FALSE)

\* the outcomes of the two random.choice draws that can end the retry loop
Picks == {p \in Range(images) \X Range(images) : p[1] # p[2]}

Init ==
    /\ rater = Blank
    /\ pc = "startup"
    /\ \E n \in 2..MaxImages : images = [i \in 1..n |-> i]
    /\ rejected_dir = {}
    /\ disk = NoFile
    /\ sessions = 0
    /\ ops = MaxOps
    /\ obs = [Obs("none", Quiet(Blank), [loaded |-> FALSE, rejected |-> {}, saved_rejected |-> {}])
              EXCEPT !.op = "none"]

\* a constructor call made by the startup window
Construct(op, files, is_folder, set_name, load) ==
    LET r == ImageRater(files, is_folder, set_name, load, disk, images)
    IN  /\ pc = "startup"
        /\ sessions < MaxSessions
        /\ rater' = r.o
        /\ pc' = "constructed"
        /\ sessions' = sessions + 1
        /\ obs' = [Obs(op, Quiet(r.o), obs) EXCEPT
                      !.load_called = r.called, !.load_ret = r.ret,
                      !.load_before = r.before, !.load_after = r.after,
                      !.loaded = r.called,
                      !.rejected = IF r.called THEN obs.saved_rejected ELSE {}]
        /\ UNCHANGED <<images, rejected_dir, disk, ops>>

\* StartupWindow.start_rating on a folder (the set file of the folder, if
\* any, is read by load_progress) and on a selection of files
start_rating_folder == Construct("start_rating_folder", <<>>, TRUE, SetName, FALSE)

start_rating_files == Construct("start_rating_files", images, FALSE, SetName, FALSE)

\* StartupWindow.load_saved_set / on_drop of a set file
load_saved_set ==
    /\ disk.exists
    /\ LET is_file_paths_set == disk.has_file_paths /\ disk.file_paths # <<>>
       IN  Construct("load_saved_set", <<>>, ~is_file_paths_set, disk.set_name, TRUE)

\* a handler of the running window, with its outcome out
Handle(op, out, rej, n, rejected_now) ==
    /\ out.picked
    /\ ops' = ops - n
    /\ rater' = out.o
    /\ pc' = IF out.hung THEN "hung" ELSE "running"
    /\ rejected_dir' = rej
    /\ obs' = [Obs(op, out, obs) EXCEPT !.rejected = @ \cup rejected_now]
    /\ UNCHANGED <<images, disk, sessions>>

\* ImageRater.run: the first callback shows the restored pair or schedules;
\* reading current_comparison raises when the constructor never set it, and
\* the application ends
run ==
    /\ pc = "constructed"
    /\ IF "current_comparison" \notin rater.attrs
       THEN /\ pc' = "startup"
            /\ rater' = Blank
            /\ obs' = [Obs("run", Quiet(Blank), obs) EXCEPT !.raised = TRUE]
            /\ UNCHANGED <<images, rejected_dir, disk, sessions, ops>>
       ELSE IF rater.current_comparison # None
       THEN Handle("run", Quiet(rater), rejected_dir, 0, {})
       ELSE \E pick \in Picks : Handle("run", compare_images(rater, rejected_dir, pick), rejected_dir, 0, {})

choose_left ==
    /\ pc = "running"
    /\ ops > 0
    /\ \E pick \in Picks : Handle("choose_left", choose(rater, rejected_dir, 1, pick), rejected_dir, 1, {})

choose_right ==
    /\ pc = "running"
    /\ ops > 0
    /\ \E pick \in Picks : Handle("choose_right", choose(rater, rejected_dir, 2, pick), rejected_dir, 1, {})

\* reject_image('left' / 'right'): the image is copied to the rejected folder
\* before the lists are touched; the observation keeps the side when a
\* comparison was pending
RejectAction(side) ==
    /\ pc = "running"
    /\ ops > 0
    /\ LET rej == IF rater.current_comparison = None THEN rejected_dir
                  ELSE rejected_dir \cup {rater.current_comparison[side]}
       IN  \E pick \in Picks :
             Handle("reject_image",
                    [reject_image(rater, rej, side, pick) EXCEPT
                        !.side = IF rater.current_comparison = None THEN 0 ELSE side],
                    rej, 1, rej \ rejected_dir)

reject_left == RejectAction(1)

reject_right == RejectAction(2)

\* Ctrl-S: save_progress alone
save ==
    /\ pc = "running"
    /\ IF CanSave(rater)
       THEN /\ disk' = save_progress(rater)
            /\ obs' = [Obs("save_progress", Quiet(rater), obs) EXCEPT
                          !.saved_rejected = obs.rejected]
       ELSE /\ disk' = disk
            /\ obs' = [Obs("save_progress", Quiet(rater), obs) EXCEPT !.raised = TRUE]
    /\ UNCHANGED <<rater, pc, images, rejected_dir, sessions, ops>>

\* the window is closed; the next session starts from the startup window
quit ==
    /\ pc = "running"
    /\ pc' = "startup"
    /\ rater' = Blank
    /\ obs' = Obs("quit", Quiet(Blank), obs)
    /\ UNCHANGED <<images, rejected_dir, disk, sessions, ops>>

Next ==
    \/ start_rating_folder
    \/ start_rating_files
    \/ load_saved_set
    \/ run
    \/ choose_left
    \/ choose_right
    \/ reject_left
    \/ reject_right
    \/ save
    \/ quit

Spec == Init /\ [][Next]_vars

\* One session from a fresh start, without the set file
SessionNext ==
    \/ start_rating_folder
    \/ start_rating_files
    \/ run
    \/ choose_left
    \/ choose_right
    \/ reject_left
    \/ reject_right

InitSession ==
    /\ rater = Blank
    /\ pc = "startup"
    /\ \E n \in 2..MaxImages : images = [i \in 1..n |-> i]
    /\ rejected_dir = {}
    /\ disk = NoFile
    /\ sessions = 0
    /\ ops = MaxRoundOps
    /\ obs = [Obs("none", Quiet(Blank), [loaded |-> FALSE, rejected |-> {}, saved_rejected |-> {}])
              EXCEPT !.op = "none"]

SpecSession == InitSession /\ [][SessionNext]_vars

\* The same session over one image more
InitWide ==
    /\ rater = Blank
    /\ pc = "startup"
    /\ images = [i \in 1..(MaxImages + 1) |-> i]
    /\ rejected_dir = {}
    /\ disk = NoFile
    /\ sessions = 0
    /\ ops = MaxRoundOps
    /\ obs = [Obs("none", Quiet(Blank), [loaded |-> FALSE, rejected |-> {}, saved_rejected |-> {}])
              EXCEPT !.op = "none"]

SpecWide == InitWide /\ [][SessionNext]_vars

\* The set file edited between two sessions: the ratings key dropped, or its
\* object emptied
drop_ratings ==
    /\ pc = "startup"
    /\ disk.exists /\ disk.has_ratings
    /\ disk' = [disk EXCEPT !.has_ratings = FALSE, !.ratings = <<>>]
    /\ obs' = Obs("drop_ratings", Quiet(Blank), obs)
    /\ UNCHANGED <<rater, pc, images, rejected_dir, sessions, ops>>

empty_ratings ==
    /\ pc = "startup"
    /\ disk.exists /\ disk.has_ratings /\ disk.ratings # <<>>
    /\ disk' = [disk EXCEPT !.ratings = <<>>]
    /\ obs' = Obs("empty_ratings", Quiet(Blank), obs)
    /\ UNCHANGED <<rater, pc, images, rejected_dir, sessions, ops>>

EditedNext == Next \/ drop_ratings \/ empty_ratings

SpecEdited == Init /\ [][EditedNext]_vars

\* Between two sessions an image file is deleted (at least two are left).
delete_image ==
    /\ pc = "startup"
    /\ disk.exists
    /\ Len(images) > 2
    /\ \E x \in Range(images) : images' = RemoveFirst(images, x)
    /\ obs' = Obs("delete_image", Quiet(Blank), obs)
    /\ UNCHANGED <<rater, pc, rejected_dir, disk, sessions, ops>>

DeletedNext == Next \/ delete_image

SpecDeleted == Init /\ [][DeletedNext]_vars

\* Category assignment (save_ratings_to_exif, copy_best_images, save_ratings_direct).
\* sorted(self.ratings.items(), key=lambda x: x[1], reverse=True): the sort
\* is stable, so images of equal rating stay in the order of the dict, which
\* is the order of the identifiers.
sorted_images(ratings) ==
    LET before(x) == {y \in DOMAIN ratings :
                        ratings[y] > ratings[x] \/ (ratings[y] = ratings[x] /\ y < x)}
    IN  [i \in 1..Cardinality(DOMAIN ratings) |->
            CHOOSE x \in DOMAIN ratings : Cardinality(before(x)) = i - 1]

\* the thresholds with <= in place of <
exif_rating_inclusive(i, num_images) ==
    IF 100 * i <= 20 * num_images THEN 5
    ELSE IF 100 * i <= 40 * num_images THEN 4
    ELSE IF 100 * i <= 60 * num_images THEN 3
    ELSE IF 100 * i <= 80 * num_images THEN 2
    ELSE 1

\* the categories handed out from the bottom
exif_rating_reversed(i, num_images) ==
    IF 100 * i < 20 * num_images THEN 1
    ELSE IF 100 * i < 40 * num_images THEN 2
    ELSE IF 100 * i < 60 * num_images THEN 3
    ELSE IF 100 * i < 80 * num_images THEN 4
    ELSE 5

\* percentile = (i / num_images) * 100 against 20, 40, 60, 80: the double
\* is compared as the fraction 100 * i / num_images (the two agree, the
\* products 0.2 * 100 ... 0.8 * 100 being exactly 20.0 ... 80.0)
exif_rating(i, num_images) ==
    IF 100 * i < 20 * num_images THEN 5
    ELSE IF 100 * i < 40 * num_images THEN 4
    ELSE IF 100 * i < 60 * num_images THEN 3
    ELSE IF 100 * i < 80 * num_images THEN 2
    ELSE 1

\* the loop of save_ratings_to_exif: <<image, exif_rating>> in the order
\* visited
AssignCategories(ratings) ==
    LET sorted == sorted_images(ratings)
        num_images == Len(sorted)
    IN  [k \in 1..num_images |-> <<sorted[k], exif_rating(k - 1, num_images)>>]

\* copy_best_images, lines 733-750: <<N of folder_name rated_N, exif_rating>>
\* for position i of len(sorted_images) images
folder_rating(i, num_images) ==
    IF 100 * i < 20 * num_images THEN <<5, 5>>
    ELSE IF 100 * i < 40 * num_images THEN <<4, 4>>
    ELSE IF 100 * i < 60 * num_images THEN <<3, 3>>
    ELSE IF 100 * i < 80 * num_images THEN <<2, 2>>
    ELSE <<1, 1>>

\* the loop of copy_best_images: <<image, N, exif_rating>> in the order visited
CopyCategories(ratings) ==
    LET sorted == sorted_images(ratings)
    IN  [k \in 1..Len(sorted) |->
            <<sorted[k], folder_rating(k - 1, Len(sorted))[1],
              folder_rating(k - 1, Len(sorted))[2]>>]

\* save_ratings_direct, lines 1173-1185
direct_rating(i, num_images) ==
    IF 100 * i < 20 * num_images THEN 5
    ELSE IF 100 * i < 40 * num_images THEN 4
    ELSE IF 100 * i < 60 * num_images THEN 3
    ELSE IF 100 * i < 80 * num_images THEN 2
    ELSE 1

\* the loop of save_ratings_direct: <<image, exif_rating>> in the order visited
DirectCategories(ratings) ==
    LET sorted == sorted_images(ratings)
        num_images == Len(sorted)
    IN  [k \in 1..num_images |-> <<sorted[k], direct_rating(k - 1, num_images)>>]

\* The final options on a ratings map of 0..MaxRated images: ratings that
\* are pairwise distinct, in every rotation of the order of the identifiers,
\* or all equal.
InitCategories ==
    /\ \E n \in 0..MaxRated : \E r \in 0..n :
          /\ n > 0 \/ r = 0
          /\ images = [i \in 1..n |-> i]
          /\ rater = [InitFields(Blank, TRUE, <<>>, [i \in 1..n |-> i]) EXCEPT
                        !.ratings = [k \in 1..n |->
                                        IF r = n THEN InitialRating
                                        ELSE InitialRating + 1000 * ((k + r) % n)]]
    /\ pc = "final"
    /\ rejected_dir = {}
    /\ disk = NoFile
    /\ sessions = 0
    /\ ops = 0
    /\ obs = [Obs("none", Quiet(Blank), [loaded |-> FALSE, rejected |-> {}, saved_rejected |-> {}])
              EXCEPT !.op = "none"]

\* an export routine run from the final options: assigned is the star
\* rating written for each image, folders the rated_N folder it is copied to
Categorise(op, assigned, folders) ==
    /\ pc = "final"
    /\ "ratings" \in rater.attrs
    /\ obs' = [Obs(op, Quiet(Blank), obs) EXCEPT !.assigned = assigned, !.folders = folders]
    /\ UNCHANGED <<rater, pc, images, rejected_dir, sessions, ops>>

save_ratings_to_exif ==
    /\ Categorise("save_ratings_to_exif", AssignCategories(rater.ratings), <<>>)
    /\ UNCHANGED disk

copy_best_images ==
    LET copied == CopyCategories(rater.ratings)
    IN  /\ Categorise("copy_best_images",
                      [k \in DOMAIN copied |-> <<copied[k][1], copied[k][3]>>],
                      [k \in DOMAIN copied |-> <<copied[k][1], copied[k][2]>>])
        /\ UNCHANGED disk

\* save_ratings_direct writes the set file first (save_progress, line 1151)
save_ratings_direct ==
    /\ CanSave(rater)
    /\ Categorise("save_ratings_direct", DirectCategories(rater.ratings), <<>>)
    /\ disk' = save_progress(rater)

SpecCategories ==
    InitCategories /\ [][save_ratings_to_exif \/ copy_best_images \/ save_ratings_direct]_vars

\* update_ratings on its own: two images with ratings drawn from
\* RatingValues (thousandths of a point), rated against each other
\* MaxRatingSteps times, either one winning.
RatingValues == {1100000, 1484000, 1500000, 1516000, 1900000, 9500000}

InitRatings ==
    /\ \E a, b \in RatingValues :
          rater = [InitFields(Blank, FALSE, <<1, 2>>, <<>>) EXCEPT
                      !.ratings = [i \in {1, 2} |-> IF i = 1 THEN a ELSE b]]
    /\ pc = "rating"
    /\ images = <<1, 2>>
    /\ rejected_dir = {}
    /\ disk = NoFile
    /\ sessions = 0
    /\ ops = MaxRatingSteps
    /\ obs = [Obs("none", Quiet(Blank), [loaded |-> FALSE, rejected |-> {}, saved_rejected |-> {}])
              EXCEPT !.op = "none"]

\* one call update_ratings(1, 2, winner); next_image tells the winner
rate ==
    /\ pc = "rating"
    /\ ops > 0
    /\ \E winner \in {1, 2} :
          /\ rater' = [rater EXCEPT !.ratings = update_ratings(@, 1, 2, winner)]
          /\ obs' = [Obs("update_ratings", Quiet(Blank), obs) EXCEPT !.next_image = winner]
    /\ ops' = ops - 1
    /\ UNCHANGED <<pc, images, rejected_dir, disk, sessions>>

SpecRatings == InitRatings /\ [][rate]_vars

\* show_images at the end of a handler whose outcome is out: it is called
\* when the handler left a comparison pending.  Either both images load, or
\* one does not (FileNotFoundError, UnidentifiedImageError, or a path that
\* is missing or does not exist): the pending comparison is cleared and
\* compare_images is called again, which ends in show_images in its turn.
\* The outcomes are those of every way the loads and the draws can go; an
\* outcome tells whether a pair was skipped on the way.
\* show_images that clears the pending comparison of a pair it cannot load
\* and returns without calling compare_images
show_images_drop(out, rej) ==
    IF ~out.picked
    THEN {}
    ELSE IF out.o.current_comparison = None \/ out.raised \/ out.hung
    THEN {out}
    ELSE {out, [out EXCEPT !.o.current_comparison = None, !.skipped = TRUE]}

RECURSIVE show_images(_, _)
show_images(out, rej) ==
    IF ~out.picked
    THEN {}
    ELSE IF out.o.current_comparison = None \/ out.raised \/ out.hung
    THEN {out}
    ELSE {out} \cup
         {[x EXCEPT !.skipped = TRUE] :
            x \in UNION {show_images(compare_images([out.o EXCEPT !.current_comparison = None],
                                                    rej, pick), rej) : pick \in Picks}}

\* The handlers of the running window in which show_images skips a pair
run_skipping ==
    /\ pc = "constructed"
    /\ "current_comparison" \in rater.attrs
    /\ \E pick \in Picks :
          \E out \in show_images(IF rater.current_comparison # None THEN Quiet(rater)
                                 ELSE compare_images(rater, rejected_dir, pick), rejected_dir) :
             /\ out.skipped
             /\ Handle("run", out, rejected_dir, 0, {})

ChooseSkipping(op, winner_index) ==
    /\ pc = "running"
    /\ ops > 0
    /\ \E pick \in Picks :
          \E out \in show_images(choose(rater, rejected_dir, winner_index, pick), rejected_dir) :
             /\ out.skipped
             /\ Handle(op, out, rejected_dir, 1, {})

choose_left_skipping == ChooseSkipping("choose_left", 1)

choose_right_skipping == ChooseSkipping("choose_right", 2)

RejectSkipping(side) ==
    /\ pc = "running"
    /\ ops > 0
    /\ rater.current_comparison # None
    /\ LET rej == rejected_dir \cup {rater.current_comparison[side]}
       IN  \E pick \in Picks :
             \E out \in show_images(reject_image(rater, rej, side, pick), rej) :
                /\ out.skipped
                /\ Handle("reject_image", [out EXCEPT !.side = side], rej, 1, rej \ rejected_dir)

reject_left_skipping == RejectSkipping(1)

reject_right_skipping == RejectSkipping(2)

\* One fresh session in which images can fail to load
SkippingNext ==
    \/ SessionNext
    \/ run_skipping
    \/ choose_left_skipping
    \/ choose_right_skipping
    \/ reject_left_skipping
    \/ reject_right_skipping

SpecSkipping == InitSession /\ [][SkippingNext]_vars

\* Sessions on a folder, saved and continued, in which images can fail to
\* load
RestoredSkippingNext ==
    \/ start_rating_folder
    \/ run
    \/ choose_left
    \/ choose_right
    \/ reject_left
    \/ reject_right
    \/ save
    \/ quit
    \/ run_skipping
    \/ choose_left_skipping
    \/ choose_right_skipping
    \/ reject_left_skipping
    \/ reject_right_skipping

SpecRestoredSkipping == Init /\ [][RestoredSkippingNext]_vars

\* Files selected in the startup window: a path is <<directory, name>>, and
\* select_files appends what the dialog returns to what was selected before,
\* so that a path can be selected twice and two paths can have one name.
Dirs == {"A", "B"}

\* os.path.basename
basename(f) == f[2]

Selections ==
    UNION {[1..n -> Dirs \X Range(images)] : n \in 2..MaxImages}

\* StartupWindow.start_rating on the selected files
start_rating_selection ==
    \E selected_files \in Selections :
        Construct("start_rating_selection",
                  [i \in DOMAIN selected_files |-> basename(selected_files[i])],
                  FALSE, SetName, FALSE)

\* one session on selected files
SelectedNext ==
    \/ start_rating_selection
    \/ run
    \/ choose_left
    \/ choose_right
    \/ reject_left
    \/ reject_right

SpecSelected == InitSession /\ [][SelectedNext]_vars

\* Sessions on a folder, one after the other, with a user who resolves every
\* pending comparison: the callback that run() schedules with root.after is
\* run, and a choose or reject handler is run whenever one can be.
Resolve == choose_left \/ choose_right \/ reject_left \/ reject_right

LiveNext == start_rating_folder \/ run \/ Resolve \/ quit

SpecLive == Init /\ [][LiveNext]_vars /\ WF_vars(run) /\ WF_vars(Resolve)

----------------------------------------------------------------------------
\* The claims

Live == pc \in {"constructed", "running", "hung"}

\* n * (n - 1) / 2
PairCount(n) == (n * (n - 1)) \div 2

\* C1: the pair returned by get_next_comparison is never an unordered pair
\* that was in the comparison records when the call started, also when the
\* records came from a restored set file.
C1_NeverReturnsRecordedPair ==
    [][obs'.sched # None =>
         ~Recorded(rater.comparisons, obs'.sched[1], obs'.sched[2])]_vars

\* C2: the comparison records hold no unordered pair twice and no pair of an
\* identifier with itself, in every state of a session.
C2_NoPairTwice ==
    Live => \A i, j \in DOMAIN rater.comparisons :
                /\ rater.comparisons[i][1] # rater.comparisons[i][2]
                /\ i # j => {rater.comparisons[i][1], rater.comparisons[i][2]}
                              # {rater.comparisons[j][1], rater.comparisons[j][2]}

\* C3: compare_images enters the retry loop of get_next_comparison only when
\* some unordered pair of distinct live identifiers is not recorded, so the
\* loop always ends.
C3_LoopOnlyWithUnseenPair ==
    /\ obs.entered => obs.unseen
    /\ pc # "hung"

\* C4: an identifier rejected in the session, or before the set file the
\* session continues was saved, has no rating and is in no pending comparison.
C4_RejectedStaysOut ==
    Live => \A x \in obs.rejected :
                /\ x \notin DOMAIN rater.ratings
                /\ x \notin Range(rater.current_comparison)

\* C5: the session restored from a saved set file has the ratings, the
\* comparison records, the counter and the pending comparison that were saved.
C5_RoundTrip ==
    (pc = "constructed" /\ obs.op = "load_saved_set") =>
        /\ "ratings" \in rater.attrs
        /\ rater.ratings = disk.ratings
        /\ JsonDumpPairs(rater.comparisons) = disk.comparisons
        /\ rater.current_comparison_number = disk.current_comparison_number
        /\ rater.current_comparison = (IF disk.has_current THEN disk.current_comparison ELSE None)

C7_CompleteMeansNoPairLeft ==
    (pc = "running" /\ obs.done) =>
        (Len(rater.image_files) < 2 \/ Unseen(rater) = {})

\* C8: the keys of the ratings map are exactly the live identifiers.
C8_RatingsAreLive ==
    Live => /\ "ratings" \in rater.attrs
            /\ DOMAIN rater.ratings = Range(rater.image_files)

\* C9: the counter grows by exactly 1 on every choose_left / choose_right made
\* with a pending comparison, is unchanged by reject_image and never
\* decreases during a session.
C9_CounterSteps ==
    [][(pc = "running" /\ pc' \in {"running", "hung"}) =>
         /\ (obs'.op \in {"choose_left", "choose_right"} /\ rater.current_comparison # None)
              => rater'.current_comparison_number = rater.current_comparison_number + 1
         /\ obs'.op = "reject_image"
              => rater'.current_comparison_number = rater.current_comparison_number
         /\ rater'.current_comparison_number >= rater.current_comparison_number]_vars

\* C10: load_set_from_file on a set file whose ratings are missing or empty
\* returns failure and leaves every attribute as it was before the call.
C10_FailedRestoreChangesNothing ==
    (obs.load_called /\ (~disk.has_ratings \/ disk.ratings = <<>>)) =>
        /\ ~obs.load_ret
        /\ obs.load_after = obs.load_before

C12_RoundCompletes ==
    (pc = "running" /\ ops > 0) ~>
        \/ pc = "startup"
        \/ pc = "running" /\ ops = 0
        \/ pc = "running" /\ rater.current_comparison = None

\* C13: once compare_images has reported the round exhausted (the session
\* runs with no comparison pending), no handler sets a pending comparison or
\* changes the ratings, the comparison records or the counter, and
\* save_progress writes the set file of the state.
C13_ExhaustedIsTerminal ==
    [][(pc = "running" /\ rater.current_comparison = None /\ pc' \in {"running", "hung"}) =>
         /\ rater'.current_comparison = None
         /\ rater'.ratings = rater.ratings
         /\ rater'.comparisons = rater.comparisons
         /\ rater'.current_comparison_number = rater.current_comparison_number
         /\ obs'.op = "save_progress" => (~obs'.raised /\ disk' = save_progress(rater))]_vars

\* C14: save_progress leaves the ratings, the comparison records, the
\* counter, the pending comparison, the live identifiers and the set name as
\* they were; the set file it writes has the key current_comparison exactly
\* when a comparison is pending and the key file_paths exactly when the
\* session is not on a folder.
C14_SaveChangesNothing ==
    [][obs'.op = "save_progress" =>
         /\ rater' = rater
         /\ ~obs'.raised =>
              /\ disk'.exists
              /\ disk'.has_current <=> rater.current_comparison # None
              /\ disk'.has_current => disk'.current_comparison = rater.current_comparison
              /\ disk'.has_file_paths <=> ~rater.is_folder]_vars

C14_Witness ==
    /\ obs.op = "save_progress"
    /\ ~obs.raised
    /\ rater.is_folder
    /\ rater.current_comparison # None
    /\ disk.has_current
    /\ ~disk.has_file_paths

\* C15: in a session restored from a set file, in folder and in file mode,
\* the pending comparison and every comparison record name only live
\* identifiers (image_files); a saved pending comparison that names another
\* identifier is dropped.
C15_RestoredNamesLiveOnly ==
    (pc = "constructed" /\ obs.load_called) =>
        /\ \A x \in Range(rater.current_comparison) : InList(x, rater.image_files)
        /\ \A i \in DOMAIN rater.comparisons :
              /\ InList(rater.comparisons[i][1], rater.image_files)
              /\ InList(rater.comparisons[i][2], rater.image_files)

\* C16: a decision between two images that both have the rating 1500 gives
\* the winner 1516 and the loser 1484, whichever side wins.
C16_FirstDecision ==
    [][\A w \in {1, 2} :
          (/\ obs'.op = (IF w = 1 THEN "choose_left" ELSE "choose_right")
           /\ pc = "running" /\ ~obs'.raised
           /\ rater.current_comparison # None
           /\ rater.ratings[rater.current_comparison[1]] = InitialRating
           /\ rater.ratings[rater.current_comparison[2]] = InitialRating)
          => /\ rater'.ratings[rater.current_comparison[w]] = 1516000
             /\ rater'.ratings[rater.current_comparison[3 - w]] = 1484000]_vars

C16_Witness ==
    /\ obs.op = "choose_right"
    /\ rater.current_comparison_number = 1
    /\ \E x, y \in DOMAIN rater.ratings : rater.ratings[x] = 1484000 /\ rater.ratings[y] = 1516000

\* C17: update_ratings makes the winner's rating strictly greater and the
\* loser's rating strictly smaller, whatever the two ratings are.
C17_WinnerUpLoserDown ==
    [][obs'.op = "update_ratings" =>
         /\ rater'.ratings[obs'.next_image] > rater.ratings[obs'.next_image]
         /\ rater'.ratings[3 - obs'.next_image] < rater.ratings[3 - obs'.next_image]]_vars

Categorised == obs.op \in {"save_ratings_to_exif", "copy_best_images"}

DistinctRatings ==
    \A x, y \in DOMAIN rater.ratings : x # y => rater.ratings[x] # rater.ratings[y]

CategoryOf(x) == (CHOOSE a \in Range(obs.assigned) : a[1] = x)[2]

\* C18: on 10 images with pairwise distinct ratings each category 1..5 gets
\* exactly 2 images, category 5 the two highest rated and category 1 the two
\* lowest rated.
C18_TenImages ==
    (Categorised /\ Cardinality(DOMAIN rater.ratings) = 10 /\ DistinctRatings) =>
        /\ Len(obs.assigned) = 10
        /\ \A c \in 1..5 : Cardinality({i \in DOMAIN obs.assigned : obs.assigned[i][2] = c}) = 2
        /\ \A x \in DOMAIN rater.ratings :
              LET above == Cardinality({y \in DOMAIN rater.ratings : rater.ratings[y] > rater.ratings[x]})
              IN  /\ above < 2 <=> CategoryOf(x) = 5
                  /\ above >= 8 <=> CategoryOf(x) = 1

C18_Witness ==
    /\ obs.op = "copy_best_images"
    /\ Cardinality(DOMAIN rater.ratings) = 10
    /\ DistinctRatings
    /\ rater.ratings[1] < rater.ratings[10]
    /\ Len(obs.assigned) = 10

\* C19: on a ratings map of at most one image the assignment does not fail:
\* the only image gets category 5, and on the empty map nothing is assigned.
C19_AtMostOneImage ==
    (Categorised /\ Cardinality(DOMAIN rater.ratings) <= 1) =>
        /\ ~obs.raised
        /\ Len(obs.assigned) = Cardinality(DOMAIN rater.ratings)
        /\ \A i \in DOMAIN obs.assigned :
              obs.assigned[i][1] \in DOMAIN rater.ratings /\ obs.assigned[i][2] = 5

C19_Witness ==
    /\ obs.op = "save_ratings_to_exif"
    /\ Cardinality(DOMAIN rater.ratings) = 1
    /\ obs.assigned = <<(<<1, 5>>)>>

\* C20: the image at position i (from 0) of the n >= 1 images in descending
\* order of rating gets category 5 - floor(5 * i / n), which is in 1..5 and
\* does not grow with i, and every image of the ratings map gets exactly one
\* category.
C20_CategoryFormula ==
    Categorised =>
        LET n == Cardinality(DOMAIN rater.ratings)
        IN  /\ Len(obs.assigned) = n
            /\ {obs.assigned[k][1] : k \in DOMAIN obs.assigned} = DOMAIN rater.ratings
            /\ \A k \in DOMAIN obs.assigned :
                  /\ obs.assigned[k][2] = 5 - (5 * (k - 1)) \div n
                  /\ obs.assigned[k][2] \in 1..5
                  /\ k > 1 => /\ obs.assigned[k][2] <= obs.assigned[k - 1][2]
                              /\ rater.ratings[obs.assigned[k][1]]
                                   <= rater.ratings[obs.assigned[k - 1][1]]

C20_Witness ==
    /\ Categorised
    /\ Cardinality(DOMAIN rater.ratings) = 7
    /\ DistinctRatings
    /\ Len(obs.assigned) = 7
    /\ obs.assigned[3][2] = 4

\* C21: a decision on the pending pair (a, b) changes no rating but those of
\* a and b and leaves the live identifiers and the live count as they were;
\* the only comparison record it can add is the pair it schedules next; with
\* no comparison pending it changes nothing.
C21_DecisionFrame ==
    [][(pc = "running" /\ obs'.op \in {"choose_left", "choose_right"}) =>
         IF rater.current_comparison = None
         THEN rater' = rater
         ELSE /\ DOMAIN rater'.ratings = DOMAIN rater.ratings
              /\ \A x \in DOMAIN rater.ratings \ Range(rater.current_comparison) :
                    rater'.ratings[x] = rater.ratings[x]
              /\ rater'.image_files = rater.image_files
              /\ rater'.num_images = rater.num_images
              /\ \/ rater'.comparisons = rater.comparisons
                 \/ /\ obs'.sched # None
                    /\ rater'.comparisons =
                         Append(rater.comparisons, <<obs'.sched[1], obs'.sched[2], "tuple">>)]_vars

\* C22: reject_image(side) with a comparison pending removes the identifier
\* on that side, and no other, from the live list and from the ratings map
\* and lowers the live count by exactly 1; the survivor stays live, the
\* ratings that are left are unchanged and no comparison record is removed.
C22_RejectFrame ==
    [][(pc = "running" /\ obs'.op = "reject_image" /\ rater.current_comparison # None) =>
         LET x == rater.current_comparison[obs'.side]
             y == rater.current_comparison[3 - obs'.side]
         IN  /\ InList(x, rater.image_files)
             /\ rater'.image_files = RemoveFirst(rater.image_files, x)
             /\ x \in DOMAIN rater.ratings
             /\ DOMAIN rater'.ratings = DOMAIN rater.ratings \ {x}
             /\ \A z \in DOMAIN rater'.ratings : rater'.ratings[z] = rater.ratings[z]
             /\ rater'.num_images = rater.num_images - 1
             /\ InList(y, rater'.image_files)
             /\ Len(rater'.comparisons) >= Len(rater.comparisons)
             /\ \A i \in DOMAIN rater.comparisons :
                   rater'.comparisons[i] = rater.comparisons[i]]_vars

\* the identifiers get_next_image can return for current_image: those of
\* the live list that differ from it and whose unordered pair with it is not
\* recorded
Partners(o, current_image) ==
    {i \in DOMAIN o.image_files :
        /\ o.image_files[i] # current_image
        /\ ~Recorded(o.comparisons, current_image, o.image_files[i])}

\* C23: after a rejection the new partner is the first identifier of the
\* live list that differs from the survivor and whose unordered pair with
\* the survivor is not recorded, and exactly that pair is added to the
\* records; when there is no such identifier get_next_image returns none and
\* adds no record (the only record the call can then add is the pair that
\* compare_images schedules).
C23_NextPartner ==
    [][(pc = "running" /\ obs'.op = "reject_image" /\ rater.current_comparison # None
        /\ ~obs'.raised) =>
         LET x == rater.current_comparison[obs'.side]
             y == rater.current_comparison[3 - obs'.side]
             o == [rater EXCEPT !.image_files = RemoveFirst(@, x)]
             found == Partners(o, y)
         IN  IF found = {}
             THEN /\ obs'.next_image = 0
                  /\ \/ rater'.comparisons = rater.comparisons
                     \/ /\ obs'.sched # None
                        /\ rater'.comparisons =
                             Append(rater.comparisons, <<obs'.sched[1], obs'.sched[2], "tuple">>)
             ELSE /\ obs'.next_image = o.image_files[CHOOSE k \in found : \A j \in found : k <= j]
                  /\ rater'.comparisons =
                       Append(rater.comparisons, <<y, obs'.next_image, "tuple">>)]_vars

C23_Witness ==
    /\ pc = "running"
    /\ obs.op = "reject_image"
    /\ obs.next_image # 0
    /\ \E i, j \in DOMAIN rater.image_files :
          /\ i < j
          /\ rater.image_files[i] = obs.next_image
          /\ rater.image_files[j] \notin Range(rater.current_comparison)
          /\ \A y \in Range(rater.current_comparison) \ {obs.next_image} :
                ~Recorded(rater.comparisons, y, rater.image_files[j])

\* C24: in every state of a session the live count of the exhaustion test
\* (num_images) is the number of live identifiers (the length of
\* image_files).
C24_CountIsLength ==
    Live => rater.num_images = Len(rater.image_files)

\* C25: a reject_image call that cannot complete, because the identifier to
\* reject is not in the live list or has no rating, leaves the live list,
\* the ratings, the live count, the comparison records and the pending
\* comparison as they were before the call.
C25_FailedRejectChangesNothing ==
    [][(pc = "running" /\ obs'.op = "reject_image" /\ obs'.raised) =>
         /\ rater'.image_files = rater.image_files
         /\ rater'.ratings = rater.ratings
         /\ rater'.num_images = rater.num_images
         /\ rater'.comparisons = rater.comparisons
         /\ rater'.current_comparison = rater.current_comparison]_vars

\* C26: the live list never holds an identifier twice, however the session
\* was started: on a folder, on selected files (the same file selected twice
\* or two files of one name in two directories included) or from a set file.
C26_LiveIdsDistinct ==
    Live => \A i, j \in DOMAIN rater.image_files :
                i # j => rater.image_files[i] # rater.image_files[j]

\* C27: once the first callback of run has returned, a session rests with no
\* comparison pending only when the round is exhausted: after every handler
\* that has returned (also one in which show_images skipped a pair whose
\* image could not be loaded) a comparison is pending, or fewer than 2
\* identifiers are live, or the comparison records number at least
\* num_images * (num_images - 1) / 2.
C27_PendingUnlessExhausted ==
    pc = "running" =>
        \/ rater.current_comparison # None
        \/ Len(rater.image_files) < 2
        \/ Len(rater.comparisons) >= PairCount(rater.num_images)

C27_Witness ==
    /\ pc = "running"
    /\ obs.op = "run"
    /\ obs.loaded
    /\ obs.skipped
    /\ obs.sched # None
    /\ rater.current_comparison = obs.sched
    /\ Len(rater.comparisons) = 2

\* C28: whenever a comparison is pending, its two identifiers are distinct,
\* both are in the live list, both have a rating, and their unordered pair is
\* among the comparison records: after scheduling, after the re-pairing of a
\* rejection and after a restore.
C28_PendingIsSound ==
    (Live /\ rater.current_comparison # None) =>
        LET a == rater.current_comparison[1]
            b == rater.current_comparison[2]
        IN  /\ a # b
            /\ InList(a, rater.image_files) /\ InList(b, rater.image_files)
            /\ "ratings" \in rater.attrs
            /\ a \in DOMAIN rater.ratings /\ b \in DOMAIN rater.ratings
            /\ Recorded(rater.comparisons, a, b)

\* C29: in a session started on n0 identifiers with no comparison record,
\* the counter of completed comparisons is never more than the number of
\* comparison records, and that number is never more than n0 * (n0 - 1) / 2,
\* however decisions and rejections follow each other.
C29_CounterAndRecordsBounded ==
    Live => /\ rater.current_comparison_number <= Len(rater.comparisons)
            /\ Len(rater.comparisons) <= PairCount(Len(images))

C29_Witness ==
    /\ pc = "running"
    /\ Len(images) = 3
    /\ obs.op = "reject_image"
    /\ obs.rejected # {}
    /\ Len(rater.comparisons) = PairCount(3)
    /\ rater.current_comparison_number = 2

Exported == obs.op \in {"save_ratings_to_exif", "copy_best_images", "save_ratings_direct"}

\* C30: save_ratings_to_exif, copy_best_images and save_ratings_direct give
\* every identifier the same category on every ratings map (an export run
\* after another on the same ratings assigns what the other assigned), and
\* the star rating copy_best_images writes is the number of the rated_N
\* folder it copies the image to.
C30_ExportsAgree ==
    [][/\ (Exported /\ Exported') => obs'.assigned = obs.assigned
       /\ obs'.op = "copy_best_images" => obs'.folders = obs'.assigned]_vars

C30_Witness ==
    /\ obs.op = "copy_best_images"
    /\ disk.exists
    /\ Len(obs.folders) = 10
    /\ obs.folders[3][2] = 4
    /\ obs.assigned[10][2] = 1

====
